---- MODULE Spec2Model ----
(***************************************************************************)
(* Model of the Win Tala storefront client (src/App.jsx): the session      *)
(* store (AuthProvider), the router (Routes), and the views that issue     *)
(* requests whose responses write local state (CategoryPage,               *)
(* ProductDetails, LoginPage, RegisterPage, ProfileMenu, SearchBar).       *)
(*                                                                         *)
(* The JavaScript event loop runs one handler to completion at a time, so  *)
(* every action below is one handler: a user event, or the continuation    *)
(* that runs when one outstanding request resolves.  Outstanding requests  *)
(* are kept in the bag net; they resolve in any order and none is ever     *)
(* cancelled.  The read-only fetches of Home, CartPage, CartIcon and App   *)
(* (navigation tree) write state that no modelled handler reads and are    *)
(* left out.                                                               *)
(***************************************************************************)
EXTENDS Naturals, Sequences, FiniteSets, Bags

VARIABLES
    user,         \* AuthProvider: useState(null)
    loading,      \* AuthProvider: useState(true)
    probe,        \* the GET /auth/me promise: "pending", "ok" or "failed"
    touched,      \* history: login/register/logout has called setUser
    loc,          \* the router's location: [pathname, search]
    net,          \* bag of outstanding requests
    alert,        \* the blocking alert() dialog on screen, or "none"
    products,     \* CategoryPage: useState([]), by the id it was returned for
    fetched,      \* history: a response for the current category id was applied
    p,            \* ProductDetails: useState(null)
    adding        \* ProductDetails: useState(false)

vars == <<user, loading, probe, touched, loc, net, alert, products, fetched, p, adding>>

----------------------------------------------------------------------------
(* Bounds *)

MaxInflight == 2      \* requests a user event may leave outstanding
MaxQueryLen == 1      \* characters typed into the search box

----------------------------------------------------------------------------
(* Data *)

NoUser == "null"
Users == {"alice", "bob"}
Admins == {"alice"}                 \* users whose is_admin is set
NoProducts == "[]"
NoProduct == "null"
CategoryIds == {"11", "12"}
ProductIds == {"p1"}
Alphabet == {"a", " "}

Queries == UNION {[1..n -> Alphabet] : n \in 0..MaxQueryLen}

RECURSIVE encodeURIComponent(_)
encodeURIComponent(q) ==
    IF q = <<>> THEN <<>>
    ELSE (IF Head(q) = " " THEN <<"%", "2", "0">> ELSE <<Head(q)>>)
         \o encodeURIComponent(Tail(q))

----------------------------------------------------------------------------
(* Router *)

Routes == <<
    [path |-> <<>>,                  element |-> "Home"],
    [path |-> <<"category", ":id">>, element |-> "CategoryPage"],
    [path |-> <<"product", ":id">>,  element |-> "ProductDetails"],
    [path |-> <<"cart">>,            element |-> "CartPage"],
    [path |-> <<"login">>,           element |-> "LoginPage"],
    [path |-> <<"register">>,        element |-> "RegisterPage"],
    [path |-> <<"admin", "*">>,      element |-> "AdminPanel"] >>

NoView == "none"

IsSplat(pattern) == pattern # <<>> /\ pattern[Len(pattern)] = "*"

MatchPath(pattern, pathname) ==
    LET fixed == IF IsSplat(pattern) THEN Len(pattern) - 1 ELSE Len(pattern)
    IN  /\ IF IsSplat(pattern) THEN Len(pathname) >= fixed ELSE Len(pathname) = fixed
        /\ \A i \in 1..fixed : pattern[i] = ":id" \/ pattern[i] = pathname[i]

MountedViews(pathname) ==
    LET matched == {i \in DOMAIN Routes : MatchPath(Routes[i].path, pathname)}
    IN  IF matched = {} THEN {}
        ELSE {Routes[CHOOSE i \in matched : \A j \in matched : i <= j].element}

\* The pathnames the application links or redirects to.
Pathnames ==
    {<<>>, <<"cart">>, <<"login">>, <<"register">>, <<"search">>,
     <<"admin">>, <<"admin", "products">>, <<"admin", "orders">>}
    \cup {<<"category", id>> : id \in CategoryIds}
    \cup {<<"product", id>> : id \in ProductIds}

\* What <Routes> renders at each of them.
Rendered ==
    [pn \in Pathnames |->
        IF MountedViews(pn) = {} THEN NoView ELSE CHOOSE v \in MountedViews(pn) : TRUE]

ViewAt(l) == Rendered[l.pathname]

Path(pathname) == [pathname |-> pathname, search |-> <<>>]
HomePath == Path(<<>>)
ParamId(l) == l.pathname[2]

----------------------------------------------------------------------------
(* Outstanding requests *)

\* before: the store as it was when a login or register was submitted (history).
Request(kind, id) ==
    [kind |-> kind, id |-> id, live |-> TRUE,
     before |-> IF kind \in {"login", "register"} THEN <<user, loading>> ELSE <<>>]

OwnedBy(view) ==
    CASE view = "CategoryPage"   -> {"category"}
      [] view = "ProductDetails" -> {"product", "cart_add"}
      [] view = "LoginPage"      -> {"login"}
      [] view = "RegisterPage"   -> {"register"}
      [] OTHER                   -> {}

Send(bag, r) == bag (+) SetToBag({r})
Take(bag, r) == bag (-) SetToBag({r})

\* The requests of an unmounted view stay outstanding; their continuations
\* call the setters of a component instance that no longer exists.
Unmount(bag, view) ==
    LET Stale(r) == IF r.kind \in OwnedBy(view) THEN [r EXCEPT !.live = FALSE] ELSE r
        S == BagToSet(bag)
    IN  [t \in {Stale(r) : r \in S} |->
            LET from == {r \in S : Stale(r) = t}
                n1 == IF t \in from THEN bag[t] ELSE 0
                o  == [t EXCEPT !.live = TRUE]
                n2 == IF o # t /\ o \in from THEN bag[o] ELSE 0
            IN  n1 + n2]

Outstanding(kind) == {r \in BagToSet(net) : r.kind = kind}
LiveCount(kind) ==
    LET S == {r \in Outstanding(kind) : r.live}
    IN  IF S = {} THEN 0 ELSE BagCardinality([r \in S |-> net[r]])

----------------------------------------------------------------------------
(* Initial state: the application has rendered once at the entered URL and *)
(* AuthProvider's effect has issued GET /auth/me.                          *)

EntryPaths == {HomePath, Path(<<"admin">>)}

Init ==
    /\ user = NoUser
    /\ loading = TRUE
    /\ probe = "pending"
    /\ touched = FALSE
    /\ loc \in EntryPaths
    /\ net = EmptyBag
    /\ alert = "none"
    /\ products = NoProducts
    /\ fetched = FALSE
    /\ p = NoProduct
    /\ adding = FALSE

----------------------------------------------------------------------------
(* Navigation: the router re-renders <Routes> for the new location.  A     *)
(* different route element unmounts the old view and mounts the new one    *)
(* with fresh state; the same element with another :id keeps the instance  *)
(* and re-runs its [id] effect.                                            *)

navigate(target, bag) ==
    LET old == ViewAt(loc)
        new == ViewAt(target)
        remount == old # new
        rerun == remount \/ (new \in {"CategoryPage", "ProductDetails"}
                             /\ ParamId(target) # ParamId(loc))
        kept == IF remount THEN Unmount(bag, old) ELSE bag
    IN  /\ loc' = target
        /\ net' = IF rerun /\ new = "CategoryPage"
                      THEN Send(kept, Request("category", ParamId(target)))
                  ELSE IF rerun /\ new = "ProductDetails"
                      THEN Send(kept, Request("product", ParamId(target)))
                  ELSE kept
        /\ products' = IF remount THEN NoProducts ELSE products
        /\ fetched' = IF rerun THEN FALSE ELSE fetched
        /\ p' = IF remount THEN NoProduct ELSE p
        /\ adding' = IF remount THEN FALSE ELSE adding

Idle == alert = "none"        \* alert() blocks the event loop until dismissed

----------------------------------------------------------------------------
(* AuthProvider *)

\* ProbeOk with setLoading(false) run on the failure path only
ProbeOk_NoFinally(u) ==
    /\ Idle /\ probe = "pending"
    /\ probe' = "ok"
    /\ user' = u
    /\ UNCHANGED <<loading, touched, loc, net, alert, products, fetched, p, adding>>

ProbeOk(u) ==
    /\ Idle /\ probe = "pending"
    /\ probe' = "ok"
    /\ user' = u
    /\ loading' = FALSE
    /\ UNCHANGED <<touched, loc, net, alert, products, fetched, p, adding>>

\* ProbeFail with the .finally handler missing
ProbeFail_NoFinally ==
    /\ Idle /\ probe = "pending"
    /\ probe' = "failed"
    /\ UNCHANGED <<user, loading, touched, loc, net, alert, products, fetched, p, adding>>

ProbeFail ==
    /\ Idle /\ probe = "pending"
    /\ probe' = "failed"
    /\ loading' = FALSE
    /\ UNCHANGED <<user, touched, loc, net, alert, products, fetched, p, adding>>

\* LoginPage.submit / RegisterPage.submit up to the await inside login / register
Submit(kind, view) ==
    /\ Idle /\ ViewAt(loc) = view
    /\ BagCardinality(net) < MaxInflight
    /\ net' = Send(net, Request(kind, "-"))
    /\ UNCHANGED <<user, loading, probe, touched, loc, alert, products, fetched, p, adding>>

\* AuthOk reading the user from the wrong level of the response (r.user for
\* r.data.user): setUser(undefined) leaves the store without a user
AuthOk_WrongField(kind, r, u) ==
    /\ Idle /\ r \in Outstanding(kind)
    /\ user' = NoUser
    /\ touched' = TRUE
    /\ navigate(HomePath, Take(net, r))
    /\ UNCHANGED <<loading, probe, alert>>

\* login / register after the await, then submit's navigate('/')
AuthOk(kind, r, u) ==
    /\ Idle /\ r \in Outstanding(kind)
    /\ user' = u
    /\ touched' = TRUE
    /\ navigate(HomePath, Take(net, r))
    /\ UNCHANGED <<loading, probe, alert>>

\* AuthFail with the store cleared in the catch
AuthFail_ClearsUser(kind, r) ==
    /\ Idle /\ r \in Outstanding(kind)
    /\ net' = Take(net, r)
    /\ alert' = kind
    /\ user' = NoUser
    /\ UNCHANGED <<loading, probe, touched, loc, products, fetched, p, adding>>

\* the await throws out of login / register: submit's catch shows the alert
AuthFail(kind, r) ==
    /\ Idle /\ r \in Outstanding(kind)
    /\ net' = Take(net, r)
    /\ alert' = kind
    /\ UNCHANGED <<user, loading, probe, touched, loc, products, fetched, p, adding>>

SubmitLogin == Submit("login", "LoginPage")
LoginOk(r, u) == AuthOk("login", r, u)
LoginFail(r) == AuthFail("login", r)

SubmitRegister == Submit("register", "RegisterPage")
RegisterOk(r, u) == AuthOk("register", r, u)
RegisterFail(r) == AuthFail("register", r)

DismissAlert ==
    /\ alert # "none"
    /\ alert' = "none"
    /\ UNCHANGED <<user, loading, probe, touched, loc, net, products, fetched, p, adding>>

\* ProfileMenu's button: logout() runs to its await, then navigate('/')
ClickLogout ==
    /\ Idle /\ user # NoUser
    /\ BagCardinality(net) < MaxInflight
    /\ navigate(HomePath, Send(net, Request("logout", "-")))
    /\ UNCHANGED <<user, loading, probe, touched, alert>>

LogoutOk(r) ==
    /\ Idle /\ r \in Outstanding("logout")
    /\ net' = Take(net, r)
    /\ user' = NoUser
    /\ touched' = TRUE
    /\ UNCHANGED <<loading, probe, loc, alert, products, fetched, p, adding>>

\* the await throws inside logout: setUser(null) is not reached
LogoutFail(r) ==
    /\ Idle /\ r \in Outstanding("logout")
    /\ net' = Take(net, r)
    /\ UNCHANGED <<user, loading, probe, touched, loc, alert, products, fetched, p, adding>>

----------------------------------------------------------------------------
(* Links and the search box *)

CategoryPath(id) == Path(<<"category", id>>)
ProductPath(id) == Path(<<"product", id>>)
SearchPath(q) == [pathname |-> <<"search">>, search |-> <<"q", "=">> \o encodeURIComponent(q)]

\* The <Link>s on screen.  Home's product cards are there once its list has
\* loaded, which is left open.
Links ==
    {HomePath, Path(<<"cart">>)}
    \cup {CategoryPath(id) : id \in CategoryIds}
    \cup (IF user = NoUser THEN {Path(<<"login">>)} ELSE {})
    \cup (IF ViewAt(loc) = "LoginPage" THEN {Path(<<"register">>)} ELSE {})
    \cup (IF ViewAt(loc) = "Home" \/ (ViewAt(loc) = "CategoryPage" /\ products # NoProducts)
             THEN {ProductPath(id) : id \in ProductIds} ELSE {})
    \cup (IF ViewAt(loc) = "AdminPanel" /\ user \in Admins
             THEN {Path(<<"admin", "products">>), Path(<<"admin", "orders">>)} ELSE {})

ClickLink(target) ==
    /\ Idle /\ target \in Links /\ target # loc
    /\ navigate(target, net)
    /\ BagCardinality(net') <= MaxInflight
    /\ UNCHANGED <<user, loading, probe, touched, alert>>

\* SearchBar.submit
SearchSubmit(q) ==
    /\ Idle /\ q # <<>>
    /\ navigate(SearchPath(q), net)
    /\ UNCHANGED <<user, loading, probe, touched, alert>>

----------------------------------------------------------------------------
(* CategoryPage *)

CategoryOk(r) ==
    /\ Idle /\ r \in Outstanding("category")
    /\ net' = Take(net, r)
    /\ products' = IF r.live THEN r.id ELSE products
    /\ fetched' = (fetched \/ (r.live /\ r.id = ParamId(loc)))
    /\ UNCHANGED <<user, loading, probe, touched, loc, alert, p, adding>>

CategoryFail(r) ==
    /\ Idle /\ r \in Outstanding("category")
    /\ net' = Take(net, r)
    /\ UNCHANGED <<user, loading, probe, touched, loc, alert, products, fetched, p, adding>>

----------------------------------------------------------------------------
(* ProductDetails *)

ProductOk(r) ==
    /\ Idle /\ r \in Outstanding("product")
    /\ net' = Take(net, r)
    /\ p' = IF r.live THEN r.id ELSE p
    /\ UNCHANGED <<user, loading, probe, touched, loc, alert, products, fetched, adding>>

ProductFail(r) ==
    /\ Idle /\ r \in Outstanding("product")
    /\ net' = Take(net, r)
    /\ UNCHANGED <<user, loading, probe, touched, loc, alert, products, fetched, p, adding>>

\* the button is rendered once p is set and is disabled while adding
addToCart ==
    /\ Idle /\ ViewAt(loc) = "ProductDetails" /\ p # NoProduct /\ ~adding
    /\ BagCardinality(net) < MaxInflight
    /\ adding' = TRUE
    /\ net' = Send(net, Request("cart_add", p))
    /\ UNCHANGED <<user, loading, probe, touched, loc, alert, products, fetched, p>>

\* addToCartDone without the .catch: a failed POST throws before setAdding(false)
addToCartDone_NoCatch(r, outcome) ==
    /\ Idle /\ r \in Outstanding("cart_add")
    /\ outcome \in {"ok", "error"}
    /\ net' = Take(net, r)
    /\ adding' = IF r.live /\ outcome = "ok" THEN FALSE ELSE adding
    /\ UNCHANGED <<user, loading, probe, touched, loc, alert, products, fetched, p>>

\* the POST resolves either way (.catch swallows a failure), then setAdding(false)
addToCartDone(r, outcome) ==
    /\ Idle /\ r \in Outstanding("cart_add")
    /\ outcome \in {"ok", "error"}
    /\ net' = Take(net, r)
    /\ adding' = IF r.live THEN FALSE ELSE adding
    /\ UNCHANGED <<user, loading, probe, touched, loc, alert, products, fetched, p>>

----------------------------------------------------------------------------

Requests == BagToSet(net)

Next ==
    \/ \E u \in Users : ProbeOk(u)
    \/ ProbeFail
    \/ SubmitLogin
    \/ \E r \in Requests, u \in Users : LoginOk(r, u)
    \/ \E r \in Requests : LoginFail(r)
    \/ SubmitRegister
    \/ \E r \in Requests, u \in Users : RegisterOk(r, u)
    \/ \E r \in Requests : RegisterFail(r)
    \/ DismissAlert
    \/ ClickLogout
    \/ \E r \in Requests : LogoutOk(r)
    \/ \E r \in Requests : LogoutFail(r)
    \/ \E target \in Links : ClickLink(target)
    \/ \E q \in Queries : SearchSubmit(q)
    \/ \E r \in Requests : CategoryOk(r)
    \/ \E r \in Requests : CategoryFail(r)
    \/ \E r \in Requests : ProductOk(r)
    \/ \E r \in Requests : ProductFail(r)
    \/ addToCart
    \/ \E r \in Requests, outcome \in {"ok", "error"} : addToCartDone(r, outcome)

Spec == Init /\ [][Next]_vars

----------------------------------------------------------------------------
(* Properties *)

\* C1: the step that completes logout(), whether POST /auth/logout succeeded
\* or failed, leaves the store without a user.
C1_LogoutAlwaysClears ==
    [][\A r \in Requests : (LogoutOk(r) \/ LogoutFail(r)) => user' = NoUser]_vars

\* C2 as stated: when the session probe fails, the store then has no user
\* and loading is false, whatever login, register or logout ran meanwhile.
C2_ProbeFailureClearsUser ==
    [][ProbeFail => (user' = NoUser /\ loading' = FALSE)]_vars

\* C2 as amended: when the session probe fails, loading becomes false and the
\* user is left as it was: absent unless a login or register has stored one
\* while the probe was outstanding.
C2_ProbeFailureKeepsUser ==
    [][ProbeFail => /\ loading' = FALSE
                    /\ user' = user
                    /\ (~touched => user' = NoUser)]_vars

C2_Witness == probe = "failed" /\ ~loading /\ user # NoUser /\ touched

\* C3: loading starts true, is true exactly while the probe is outstanding,
\* and once false is never set back to true by any later operation.
C3_LoadingOnce ==
    /\ loading = TRUE
    /\ [](loading <=> probe = "pending")
    /\ [][~loading => ~loading']_vars

C3_Witness == ~loading /\ touched /\ user # NoUser /\ Requests # {}

\* C4 as stated: a successful login stores the returned user, leaves loading
\* as it was, and loading is already false then.
C4_LoginWhenLoaded ==
    [][\A r \in Requests, u \in Users :
         LoginOk(r, u) => (user' = u /\ loading' = loading /\ loading' = FALSE)]_vars

\* C4 as amended: a successful login stores the returned user and leaves
\* loading as it was (true when the probe is still outstanding).
C4_LoginStoresUser ==
    [][\A r \in Requests, u \in Users :
         LoginOk(r, u) => (user' = u /\ loading' = loading)]_vars

C4_Witness == user # NoUser /\ loading /\ loc = HomePath /\ touched

\* C5 as stated: when login or register fails, user and loading are what
\* they were when the operation was submitted, the form's alert is shown and
\* the location is not changed.
C5_FailureRestoresSubmitState ==
    [][\A r \in Requests :
         (LoginFail(r) \/ RegisterFail(r)) =>
             /\ <<user', loading'>> = r.before
             /\ alert' = r.kind
             /\ loc' = loc]_vars

\* C5 as amended: when login or register fails, the failure itself changes
\* neither user nor loading (they are what they were just before the failure
\* was delivered), the form's alert is shown and the location is not changed.
C5_FailureChangesNothing ==
    [][\A r \in Requests :
         (LoginFail(r) \/ RegisterFail(r)) =>
             /\ user' = user /\ loading' = loading
             /\ alert' = r.kind
             /\ loc' = loc]_vars

C5_Witness == alert \in {"login", "register"} /\ user # NoUser /\ ViewAt(loc) # "Home"

\* C6: the in-flight flag of the mounted product view is true exactly while
\* one POST /cart/add issued by that view is outstanding, so the view never
\* has two outstanding and the flag is false once the call has resolved.
C6_AddingGuardsCart == LiveCount("cart_add") = (IF adding THEN 1 ELSE 0)

C6_Witness ==
    /\ adding
    /\ \E r \in Outstanding("cart_add") : ~r.live
    /\ \E r \in Outstanding("cart_add") : r.live

\* C7: a mounted login or register form never has two of its requests
\* outstanding.
C7_OneSubmitInFlight == LiveCount("login") <= 1 /\ LiveCount("register") <= 1

\* C8: at every location the application navigates to, the router mounts
\* exactly one view.
C8_ExactlyOneView == Cardinality(MountedViews(loc.pathname)) = 1

\* C9: in the category view, once no response is outstanding and the one for
\* the id in the path has been applied, the list shown is that id's.
C9_ShowsCurrentCategory ==
    (ViewAt(loc) = "CategoryPage" /\ LiveCount("category") = 0 /\ fetched)
        => products = ParamId(loc)

\* C10: once a login, register or logout has written the user, a probe
\* response that arrives later does not overwrite it.
C10_LateProbeIgnored ==
    [][\A u \in Users : (ProbeOk(u) /\ touched) => user' = user]_vars

====
